---- MODULE Spec2Model ----
(***************************************************************************)
(* CityBus Go: a model of the live-tracking and route-matching engine and  *)
(* of the screens that drive it.  Text is modelled as sequences of         *)
(* one-character strings so that lowercasing, trimming and substring       *)
(* containment are computed, not assumed.                                  *)
(***************************************************************************)
EXTENDS Integers, Sequences, FiniteSets, TLC

VARIABLES
    \* App (the navigation host)
    currentScreen, screenHistory, loggedInDriver, searchResults, trackingBus,
    notification,
    \* the browser's key-value store and clock
    localStorage, now,
    \* DriverRegister
    step,
    \* DriverDashboard
    isSharing, locationWatcherId, routeConfig,
    \* navigator.geolocation
    watches, inFlight, nextWatchId, publisherEvent,
    \* BusList and MapScreen
    onlineBadge, map, isOnline, lastUpdate, eta, showingEta, etaEnabled,
    userLocation, positionRequest,
    \* MapScreen's interval timers and the ref to the one it set
    pollTimers, updateIntervalRef,
    \* App: the administrator's session; AdminLogin's pending timeout
    loggedInAdmin, selectedDriverId, adminLoginTimer,
    \* AdminDashboard, AdminDriverDetail and DriverConfig
    \* (AdminDriverDetail's driver, DriverConfig's stops)
    drivers, detailDriver, isEditing, configStops,
    \* inputs and results of the pure functions checked on their own
    fnInput, fnResult,
    \* the service worker: its lifecycle state, the cache 'citybus-go-v1',
    \* the cache.put calls not yet carried out, and the last fetch event
    \* with the answer it got
    swState, cache, pendingPuts, responded

appVars == <<currentScreen, screenHistory, loggedInDriver, searchResults,
             trackingBus, notification>>
dashVars == <<isSharing, locationWatcherId, routeConfig>>
geoVars == <<watches, inFlight, nextWatchId, publisherEvent>>
mapVars == <<onlineBadge, map, isOnline, lastUpdate, eta, showingEta,
             etaEnabled, userLocation, positionRequest>>
fnVars == <<fnInput, fnResult>>
swVars == <<swState, cache, pendingPuts, responded>>
adminVars == <<loggedInAdmin, selectedDriverId, adminLoginTimer>>
formVars == <<drivers, detailDriver, isEditing, configStops>>
timerVars == <<pollTimers, updateIntervalRef>>
\* the state of the components other than the dashboard
screenVars == <<mapVars, formVars, timerVars>>
vars == <<appVars, localStorage, now, step, dashVars, geoVars, screenVars,
          adminVars, fnVars, swVars>>

-----------------------------------------------------------------------------
(* Bounds of the model *)

MaxStrLen == 2
MaxStops == 2
MaxHistory == 5
MaxWatches == 2
MaxNow == 2
MaxDrivers == 2
MaxDelta == 30
MaxMinutes == 61
\* the clock reading, in milliseconds, at which a behaviour starts
Epoch == 300000
\* the age, in milliseconds, of a LocationRecord left by an earlier session
RecordAge == 299998

-----------------------------------------------------------------------------
(* Optional values: null is the empty sequence, a value v is <<v>> *)

NULL == <<>>
Some(v) == <<v>>

-----------------------------------------------------------------------------
(* Text *)

Chars == {"a", "b", "A", " "}

Strings(n) == UNION {[1..k -> Chars] : k \in 0..n}

toLowerChar(c) == IF c = "A" THEN "a" ELSE IF c = "B" THEN "b" ELSE c

toLowerCase(s) == [i \in 1..Len(s) |-> toLowerChar(s[i])]

isWhiteSpace(c) == c = " "

RECURSIVE trimStart(_)
trimStart(s) ==
    IF s = <<>> THEN s
    ELSE IF isWhiteSpace(Head(s)) THEN trimStart(Tail(s)) ELSE s

RECURSIVE trimEnd(_)
trimEnd(s) ==
    IF s = <<>> THEN s
    ELSE IF isWhiteSpace(s[Len(s)]) THEN trimEnd(SubSeq(s, 1, Len(s) - 1)) ELSE s

trim(s) == trimEnd(trimStart(s))

\* String.prototype.includes: t occurs in s at some position
includes(s, t) ==
    \E i \in 0..(Len(s) - Len(t)) : SubSeq(s, i + 1, i + Len(t)) = t

\* Array.prototype.some is \E over the indices, Array.prototype.every is \A,
\* Array.prototype.filter is SelectSeq.

-----------------------------------------------------------------------------
(* StopMatcher as the search screen computes it.  The query arrives        *)
(* already lowercased and trimmed (normalizeQuery); the stop name is only  *)
(* lowercased.                                                             *)

\* a query that is lowercased but keeps its surrounding whitespace
normalizeQueryUntrimmed(raw) == toLowerCase(raw)
normalizeQuery(raw) == trim(toLowerCase(raw))

stopMatches(stop, query) ==
    includes(toLowerCase(stop), query) \/ includes(query, toLowerCase(stop))

-----------------------------------------------------------------------------
(* The key-value store.  An entry is [key, val]; a key is a prefix and the *)
(* identifier appended to it; entries keep their insertion order.  Values  *)
(* are plain objects of strings, numbers and arrays, which JSON.stringify  *)
(* and JSON.parse carry unchanged, so the object itself is stored.         *)

Key(pfx, id) == [pfx |-> pfx, id |-> id]
DriverKey(phone) == Key("driver_", phone)
RouteKey(phone) == Key("route_config_", phone)
LocationKey(routeId) == Key("bus_location_", routeId)

hasItem(ls, k) == \E i \in 1..Len(ls) : ls[i].key = k

getItem(ls, k) ==
    IF hasItem(ls, k)
    THEN Some(ls[CHOOSE i \in 1..Len(ls) : ls[i].key = k].val)
    ELSE NULL

\* a store that keeps every value ever written under a key
setItemAppend(ls, k, v) == Append(ls, [key |-> k, val |-> v])
setItem(ls, k, v) ==
    IF hasItem(ls, k)
    THEN [i \in 1..Len(ls) |-> IF ls[i].key = k THEN [key |-> k, val |-> v] ELSE ls[i]]
    ELSE Append(ls, [key |-> k, val |-> v])

removeItem(ls, k) == SelectSeq(ls, LAMBDA e : e.key # k)

\* registered_drivers: the admin's array of drivers, [] when the key is absent
registeredDrivers(ls) ==
    LET stored == getItem(ls, Key("registered_drivers", <<>>))
    IN IF stored = NULL THEN <<>> ELSE stored[1]

-----------------------------------------------------------------------------
(* Inputs the user can type *)

PhoneInputs == {<<"1">>, <<"2">>}
NameInputs == {"Asha"}
PasswordInputs == {"secret1", "secret2"}
RouteIdInputs == {<<"7">>, <<" ", "9">>}
StopInputs == {<<>>, <<"A", " ">>, <<"b">>}
\* stop forms of up to MaxStops fields that name no stop twice
StopLists ==
    {stops \in UNION {[1..k -> StopInputs] : k \in 1..MaxStops} :
        \A i, j \in 1..Len(stops) : (i # j /\ stops[i] = stops[j]) => stops[i] = <<>>}
QueryInputs == {<<" ", " ">>, <<"b", "a">>, <<"A", "b">>, <<"b", " ">>, <<"B", " ">>}

-----------------------------------------------------------------------------
(* Screens: mounting a screen's component gives it fresh state and runs    *)
(* its mount effects.                                                      *)

\* DriverDashboard's effect on mount: load the logged-in driver's route
loadRouteConfig(driver, ls) ==
    IF driver # NULL THEN getItem(ls, RouteKey(driver[1].phone)) ELSE NULL

\* AdminDashboard.loadDrivers: the registry, every driver given an id
loadDrivers(ls) ==
    LET parsedDrivers == registeredDrivers(ls)
    IN [index \in 1..Len(parsedDrivers) |->
          [parsedDrivers[index] EXCEPT
              !.id = IF parsedDrivers[index].id = <<>>
                     THEN <<parsedDrivers[index].phone, index>>
                     ELSE parsedDrivers[index].id]]

\* AdminDriverDetail.loadDriverData: the registry's driver with this id
loadDriverData(ls, driverId) ==
    LET found == SelectSeq(registeredDrivers(ls), LAMBDA d : d.id = driverId)
    IN IF found = <<>> THEN NULL ELSE Some(found[1])

\* the cleanup of MapScreen's effects: clearInterval(updateIntervalRef.current)
clearPollTimer == IF updateIntervalRef THEN pollTimers - 1 ELSE pollTimers

\* Unmounting the screen shown runs its effects' cleanups; the new screen's
\* component starts from its initial state and runs its mount effects.
MountScreen(screen, driver, ls) ==
    /\ pollTimers' = clearPollTimer
    /\ updateIntervalRef' = FALSE
    /\ drivers' = IF screen = "adminDashboard" THEN loadDrivers(ls) ELSE <<>>
    /\ detailDriver' = IF screen = "adminDriverDetail"
                       THEN loadDriverData(ls, selectedDriverId') ELSE NULL
    /\ isEditing' = FALSE
    /\ configStops' = <<>>
    /\ step' = 1
    /\ isSharing' = FALSE
    /\ locationWatcherId' = NULL
    /\ routeConfig' = IF screen = "driverDashboard"
                      THEN loadRouteConfig(driver, ls) ELSE NULL
    /\ map' = FALSE
    /\ isOnline' = FALSE
    /\ lastUpdate' = NULL
    /\ eta' = NULL
    /\ showingEta' = FALSE
    /\ etaEnabled' = FALSE
    /\ userLocation' = NULL
    /\ positionRequest' = NULL
    /\ onlineBadge' = <<>>

\* a showScreen that replaces the screen shown and records nothing
showScreenUnrecorded(screen, driver, ls) ==
    /\ Len(screenHistory) < MaxHistory
    /\ screenHistory' = screenHistory
    /\ currentScreen' = screen
    /\ MountScreen(screen, driver, ls)
showScreen(screen, driver, ls) ==
    /\ Len(screenHistory) < MaxHistory
    /\ screenHistory' = Append(screenHistory, screen)
    /\ currentScreen' = screen
    /\ MountScreen(screen, driver, ls)

resetToScreen(screen, driver, ls) ==
    /\ screenHistory' = <<screen>>
    /\ currentScreen' = screen
    /\ MountScreen(screen, driver, ls)

-----------------------------------------------------------------------------
(* RouteSearchEngine: CommuterSearch.onSubmit *)

hasStop(routeData, query) ==
    \E i \in 1..Len(routeData.stops) : stopMatches(routeData.stops[i], query)

\* a scan that puts each route found in front of the earlier ones
RECURSIVE scanRoutesPrepending(_, _, _, _, _)
scanRoutesPrepending(ls, i, start, destination, availableBuses) ==
    IF i > Len(ls) THEN availableBuses
    ELSE IF ls[i].key.pfx = "route_config_"
              /\ hasStop(ls[i].val, start) /\ hasStop(ls[i].val, destination)
         THEN scanRoutesPrepending(ls, i + 1, start, destination,
                                   <<ls[i].val>> \o availableBuses)
         ELSE scanRoutesPrepending(ls, i + 1, start, destination, availableBuses)
RECURSIVE scanRoutes(_, _, _, _, _)
scanRoutes(ls, i, start, destination, availableBuses) ==
    IF i > Len(ls) THEN availableBuses
    ELSE IF ls[i].key.pfx = "route_config_"
              /\ hasStop(ls[i].val, start) /\ hasStop(ls[i].val, destination)
         THEN scanRoutes(ls, i + 1, start, destination,
                         Append(availableBuses, ls[i].val))
         ELSE scanRoutes(ls, i + 1, start, destination, availableBuses)

findBuses(ls, start, destination) == scanRoutes(ls, 1, start, destination, <<>>)

-----------------------------------------------------------------------------
(* The service worker's cache.  A request is [method, url, mode] and a url *)
(* [scheme, path]; a response is [ok, body].  The cache maps a url to the  *)
(* response stored for it, or to null.                                     *)

SWRequests ==
    [method : {"GET", "POST"},
     url : {[scheme |-> "https", path |-> "/"],
            [scheme |-> "https", path |-> "/timetable"],
            [scheme |-> "chrome-extension", path |-> "/"]},
     mode : {"navigate", "cors"}]

\* what fetch(event.request) settles with: null for a rejection (the
\* network failed), else the response received
NetworkOutcomes ==
    {NULL} \cup {Some([ok |-> ok, body |-> body]) :
                    ok \in BOOLEAN, body \in {"v1", "v2"}}

\* the worker's script has run; nothing is cached yet
InitSW ==
    /\ swState = "parsed"
    /\ cache = [url \in {request.url : request \in SWRequests} |-> NULL]
    /\ pendingPuts = {}
    /\ responded = NULL

-----------------------------------------------------------------------------
(* The application after construction: App's useState initial values, an   *)
(* empty store, no position watch.                                         *)

InitApp ==
    /\ currentScreen = "welcome"
    /\ screenHistory = <<"welcome">>
    /\ loggedInDriver = NULL
    /\ searchResults = <<>>
    /\ trackingBus = <<>>
    /\ notification = "none"
    /\ loggedInAdmin = NULL
    /\ selectedDriverId = <<>>
    /\ adminLoginTimer = NULL

InitComponents ==
    /\ step = 1
    /\ isSharing = FALSE
    /\ locationWatcherId = NULL
    /\ routeConfig = NULL
    /\ map = FALSE
    /\ isOnline = FALSE
    /\ lastUpdate = NULL
    /\ eta = NULL
    /\ showingEta = FALSE
    /\ etaEnabled = FALSE
    /\ userLocation = NULL
    /\ positionRequest = NULL
    /\ onlineBadge = <<>>
    /\ pollTimers = 0
    /\ updateIntervalRef = FALSE
    /\ drivers = <<>>
    /\ detailDriver = NULL
    /\ isEditing = FALSE
    /\ configStops = <<>>

InitGeo ==
    /\ watches = {}
    /\ inFlight = {}
    /\ nextWatchId = 1
    /\ publisherEvent = "none"

InitFn ==
    /\ fnInput = <<>>
    /\ fnResult = <<>>

Init ==
    /\ InitApp /\ InitComponents /\ InitGeo /\ InitFn /\ InitSW
    /\ localStorage = <<>>
    /\ now = Epoch

-----------------------------------------------------------------------------
(* Navigation *)

\* WelcomeScreen: "Driver Portal"
WelcomeDriverPortal ==
    /\ currentScreen = "welcome"
    /\ showScreen("driverLogin", loggedInDriver, localStorage)
    /\ UNCHANGED <<loggedInDriver, searchResults, trackingBus, notification,
                   localStorage, now, geoVars, adminVars, fnVars, swVars>>

\* WelcomeScreen: "Find My Bus"
WelcomeFindMyBus ==
    /\ currentScreen = "welcome"
    /\ showScreen("commuterSearch", loggedInDriver, localStorage)
    /\ UNCHANGED <<loggedInDriver, searchResults, trackingBus, notification,
                   localStorage, now, geoVars, adminVars, fnVars, swVars>>

\* DriverLogin: "Register here"
LoginToRegister ==
    /\ currentScreen = "driverLogin"
    /\ showScreen("driverRegister", loggedInDriver, localStorage)
    /\ UNCHANGED <<loggedInDriver, searchResults, trackingBus, notification,
                   localStorage, now, geoVars, adminVars, fnVars, swVars>>

\* DriverRegister: "Sign in here"
RegisterToLogin ==
    /\ currentScreen = "driverRegister"
    /\ showScreen("driverLogin", loggedInDriver, localStorage)
    /\ UNCHANGED <<loggedInDriver, searchResults, trackingBus, notification,
                   localStorage, now, geoVars, adminVars, fnVars, swVars>>

\* the screens whose back arrow calls App.goBack
BackScreens ==
    {"driverLogin", "driverRegister", "driverConfig", "driverEdit",
     "commuterSearch", "busList", "map",
     "adminLogin", "adminDriverDetail", "adminDriverCreate"}

\* the screens whose home button calls App.goHome
HomeScreens ==
    {"driverLogin", "driverRegister", "commuterSearch", "map",
     "adminLogin", "adminDashboard", "adminDriverDetail", "adminDriverCreate"}

\* the body of App.goBack, for the driver and the store the previous
\* screen's component will see
popScreen(driver, ls) ==
    IF Len(screenHistory) > 1
    THEN LET newHistory == SubSeq(screenHistory, 1, Len(screenHistory) - 1)
             previousScreen == newHistory[Len(newHistory)]
         IN /\ screenHistory' = newHistory
            /\ currentScreen' = previousScreen
            /\ MountScreen(previousScreen, driver, ls)
    ELSE UNCHANGED <<currentScreen, screenHistory, step, dashVars, screenVars>>

\* App.goBack; on step 2 of DriverRegister the arrow is prevStep instead
goBack ==
    /\ currentScreen \in BackScreens
    /\ ~(currentScreen = "driverRegister" /\ step = 2)
    /\ UNCHANGED <<loggedInDriver, searchResults, trackingBus, notification,
                   localStorage, now, geoVars, adminVars, fnVars, swVars>>
    /\ popScreen(loggedInDriver, localStorage)

\* App.goHome
goHome ==
    /\ currentScreen \in HomeScreens
    /\ loggedInDriver' = NULL
    /\ loggedInAdmin' = NULL
    /\ selectedDriverId' = <<>>
    /\ resetToScreen("welcome", NULL, localStorage)
    /\ UNCHANGED <<searchResults, trackingBus, notification, localStorage, now,
                   geoVars, adminLoginTimer, fnVars, swVars>>

-----------------------------------------------------------------------------
(* DriverRegister *)

RegisterInputs ==
    [name : NameInputs, phone : PhoneInputs, password : {"secret1"}]

\* complete route forms, and one form for each way of being incomplete
RouteInputs ==
    [routeId : RouteIdInputs, startTime : {"09:00"}, endTime : {"17:00"},
     stops : StopLists]
    \cup {[routeId |-> <<" ">>, startTime |-> "09:00", endTime |-> "17:00",
            stops |-> <<<<"b">>>>],
          [routeId |-> <<"7">>, startTime |-> "", endTime |-> "17:00",
            stops |-> <<<<"b">>>>],
          [routeId |-> <<"7">>, startTime |-> "09:00", endTime |-> "",
            stops |-> <<<<"b">>>>]}

isBlank(text) == trim(text) = <<>>

\* a check of the route form that accepts a form without a stop
routeIncompleteStopsUnchecked(routeData) ==
    \/ isBlank(routeData.routeId)
    \/ routeData.startTime = ""
    \/ routeData.endTime = ""
\* the route form is incomplete
routeIncomplete(routeData) ==
    \/ isBlank(routeData.routeId)
    \/ routeData.startTime = ""
    \/ routeData.endTime = ""
    \/ \A i \in 1..Len(routeData.stops) : isBlank(routeData.stops[i])

\* the route configuration the driver and admin forms store
makeRouteConfig(routeData) ==
    [routeId |-> trim(routeData.routeId),
     startTime |-> routeData.startTime,
     endTime |-> routeData.endTime,
     stops |-> SelectSeq(routeData.stops, LAMBDA stop : ~isBlank(stop))]

phoneTaken(ls, phone) ==
    \/ hasItem(ls, DriverKey(phone))
    \/ \E i \in 1..Len(registeredDrivers(ls)) : registeredDrivers(ls)[i].phone = phone

\* DriverRegister.onSubmit
RegisterSubmit(data, routeData) ==
    /\ currentScreen = "driverRegister"
    /\ IF step = 1
       THEN /\ step' = 2
            /\ UNCHANGED <<appVars, localStorage, dashVars, screenVars>>
       ELSE IF routeIncomplete(routeData)
       THEN /\ notification' = "completeRouteDetails"
            /\ UNCHANGED <<currentScreen, screenHistory, loggedInDriver,
                           searchResults, trackingBus, localStorage, step,
                           dashVars, screenVars>>
       ELSE IF phoneTaken(localStorage, data.phone)
       THEN /\ notification' = "driverExists"
            /\ UNCHANGED <<currentScreen, screenHistory, loggedInDriver,
                           searchResults, trackingBus, localStorage, step,
                           dashVars, screenVars>>
       ELSE LET driverData == [id |-> now, name |-> data.name,
                               phone |-> data.phone, password |-> data.password]
                saved == setItem(setItem(localStorage, DriverKey(data.phone), driverData),
                                 RouteKey(data.phone), makeRouteConfig(routeData))
            IN /\ localStorage' = saved
               /\ loggedInDriver' = Some(driverData)
               /\ notification' = "welcomeAboard"
               /\ showScreen("driverDashboard", Some(driverData), saved)
               /\ UNCHANGED <<searchResults, trackingBus>>
    /\ UNCHANGED <<now, geoVars, adminVars, fnVars, swVars>>

\* DriverRegister.prevStep (the back arrow on step 2)
prevStep ==
    /\ currentScreen = "driverRegister"
    /\ step = 2
    /\ step' = 1
    /\ UNCHANGED <<appVars, localStorage, now, dashVars, geoVars, screenVars, adminVars, fnVars, swVars>>

-----------------------------------------------------------------------------
(* DriverLogin.onSubmit *)

LoginInputs == [phone : PhoneInputs, password : PasswordInputs]

findDriver(ls, phone) ==
    IF hasItem(ls, DriverKey(phone)) THEN getItem(ls, DriverKey(phone))
    ELSE LET allDrivers == registeredDrivers(ls)
         IN IF \E i \in 1..Len(allDrivers) : allDrivers[i].phone = phone
            THEN Some(allDrivers[CHOOSE i \in 1..Len(allDrivers) :
                        /\ allDrivers[i].phone = phone
                        /\ \A j \in 1..(i - 1) : allDrivers[j].phone # phone])
            ELSE NULL

\* a login that accepts any password for a stored phone
LoginSubmitAnyPassword(data) ==
    /\ currentScreen = "driverLogin"
    /\ LET driver == findDriver(localStorage, data.phone)
       IN IF driver = NULL
          THEN /\ notification' = "accountNotFound"
               /\ UNCHANGED <<currentScreen, screenHistory, loggedInDriver,
                              step, dashVars, screenVars>>
          ELSE /\ loggedInDriver' = driver
               /\ IF hasItem(localStorage, RouteKey(driver[1].phone))
                  THEN /\ showScreen("driverDashboard", driver, localStorage)
                       /\ notification' = "welcomeBack"
                  ELSE /\ showScreen("driverConfig", driver, localStorage)
                       /\ notification' = "welcomeBackConfigure"
    /\ UNCHANGED <<searchResults, trackingBus, localStorage, now, geoVars, adminVars, fnVars, swVars>>
LoginSubmit(data) ==
    /\ currentScreen = "driverLogin"
    /\ LET driver == findDriver(localStorage, data.phone)
       IN IF driver = NULL
          THEN /\ notification' = "accountNotFound"
               /\ UNCHANGED <<currentScreen, screenHistory, loggedInDriver,
                              step, dashVars, screenVars>>
          ELSE IF driver[1].password # data.password
          THEN /\ notification' = "incorrectPassword"
               /\ UNCHANGED <<currentScreen, screenHistory, loggedInDriver,
                              step, dashVars, screenVars>>
          ELSE /\ loggedInDriver' = driver
               /\ IF hasItem(localStorage, RouteKey(driver[1].phone))
                  THEN /\ showScreen("driverDashboard", driver, localStorage)
                       /\ notification' = "welcomeBack"
                  ELSE /\ showScreen("driverConfig", driver, localStorage)
                       /\ notification' = "welcomeBackConfigure"
    /\ UNCHANGED <<searchResults, trackingBus, localStorage, now, geoVars, adminVars, fnVars, swVars>>

-----------------------------------------------------------------------------
(* CommuterSearch.onSubmit.  react-hook-form calls it only when both       *)
(* fields hold at least 2 characters.                                      *)

formAccepts(data) ==
    Len(data.startLocation) >= 2 /\ Len(data.destinationLocation) >= 2

SearchInputs == [startLocation : QueryInputs, destinationLocation : QueryInputs]

SearchSubmit(data) ==
    /\ currentScreen = "commuterSearch"
    /\ formAccepts(data)
    /\ LET start == normalizeQuery(data.startLocation)
           destination == normalizeQuery(data.destinationLocation)
           availableBuses == findBuses(localStorage, start, destination)
       IN IF start = <<>> \/ destination = <<>>
          THEN /\ notification' = "enterBothLocations"
               /\ UNCHANGED <<currentScreen, screenHistory, searchResults,
                              step, dashVars, screenVars>>
          ELSE IF start = destination
          THEN /\ notification' = "sameStartAndDestination"
               /\ UNCHANGED <<currentScreen, screenHistory, searchResults,
                              step, dashVars, screenVars>>
          ELSE IF Len(availableBuses) > 0
          THEN /\ searchResults' = availableBuses
               /\ showScreen("busList", loggedInDriver, localStorage)
               /\ UNCHANGED notification
          ELSE /\ notification' = "noBusesFound"
               /\ UNCHANGED <<currentScreen, screenHistory, searchResults,
                              step, dashVars, screenVars>>
    /\ UNCHANGED <<loggedInDriver, trackingBus, localStorage, now, geoVars, adminVars, fnVars, swVars>>

-----------------------------------------------------------------------------
(* LocationPublisher: DriverDashboard and the position source.             *)
(* A watch is [id, routeId, mounted]: the id watchPosition returned, the   *)
(* routeId its callbacks closed over, and whether the dashboard instance   *)
(* whose state setters they hold is still mounted.  publisherEvent records *)
(* which of startSharingLocation, stopSharingLocation and the error        *)
(* callback ran last.                                                      *)

\* coordinates are in thousandths of a degree
Coords == {[lat |-> 20594, lng |-> 78963], [lat |-> 20596, lng |-> 78963]}

\* the dashboard renders its buttons only with a driver and a route
dashboardShown ==
    /\ currentScreen = "driverDashboard"
    /\ loggedInDriver # NULL
    /\ routeConfig # NULL

\* navigator.geolocation.clearWatch
clearWatch(ws, id) == {w \in ws : w.id # id}

\* stopSharingLocation, on the publisher state [isSharing, locationWatcherId, watches]
stopSharingLocation(st) ==
    IF st.locationWatcherId # NULL
    THEN [isSharing |-> FALSE,
          locationWatcherId |-> NULL,
          watches |-> clearWatch(st.watches, st.locationWatcherId[1])]
    ELSE st

\* startSharingLocation, on the same state; id is what watchPosition returns
startSharingLocation(st, id, route) ==
    IF route = NULL THEN st
    ELSE [isSharing |-> TRUE,
          locationWatcherId |-> Some(id),
          watches |-> st.watches \cup
                      {[id |-> id, routeId |-> route[1].routeId, mounted |-> TRUE]}]

publisher ==
    [isSharing |-> isSharing, locationWatcherId |-> locationWatcherId,
     watches |-> watches]

\* a cancelled watch may have had an update queued when clearWatch ran:
\* the position source either drops it or still delivers it
MayLeaveInFlight(cancelled) ==
    \/ inFlight' = inFlight
    \/ cancelled # {} /\ inFlight' = inFlight \cup cancelled

\* DriverDashboard.toggleLocationSharing
toggleLocationSharing ==
    /\ dashboardShown
    /\ IF isSharing
       THEN LET st == stopSharingLocation(publisher)
            IN /\ isSharing' = st.isSharing
               /\ locationWatcherId' = st.locationWatcherId
               /\ watches' = st.watches
               /\ MayLeaveInFlight(watches \ st.watches)
               /\ publisherEvent' = "stop"
               /\ UNCHANGED nextWatchId
       ELSE LET st == startSharingLocation(publisher, nextWatchId, routeConfig)
            IN /\ nextWatchId <= MaxWatches
               /\ isSharing' = st.isSharing
               /\ locationWatcherId' = st.locationWatcherId
               /\ watches' = st.watches
               /\ nextWatchId' = nextWatchId + 1
               /\ publisherEvent' = "start"
               /\ UNCHANGED inFlight
    /\ UNCHANGED <<appVars, localStorage, now, step, routeConfig,
                   screenVars, adminVars, fnVars, swVars>>

\* the success callback of watchPosition
writeLocation(ls, routeId, position, time) ==
    setItem(ls, LocationKey(routeId),
            [lat |-> position.lat, lng |-> position.lng, timestamp |-> time])

\* the position source reports a position to a live watch
PositionUpdate(w, position) ==
    /\ w \in watches
    /\ localStorage' = writeLocation(localStorage, w.routeId, position, now)
    /\ UNCHANGED <<appVars, now, step, dashVars, geoVars, screenVars, adminVars, fnVars, swVars>>

\* the position source delivers the update a cancelled watch had queued
LateUpdate(w, position) ==
    /\ w \in inFlight
    /\ inFlight' = inFlight \ {w}
    /\ localStorage' = writeLocation(localStorage, w.routeId, position, now)
    /\ UNCHANGED <<appVars, now, step, dashVars, watches, nextWatchId,
                   publisherEvent, screenVars, adminVars, fnVars, swVars>>

\* an error callback that marks sharing off but keeps the watcher id
PositionErrorKeepsId(w) ==
    /\ w \in watches
    /\ IF w.mounted
       THEN /\ isSharing' = FALSE
            /\ UNCHANGED locationWatcherId
       ELSE UNCHANGED <<isSharing, locationWatcherId>>
    /\ publisherEvent' = "error"
    /\ UNCHANGED <<appVars, localStorage, now, step, routeConfig, watches,
                   inFlight, nextWatchId, screenVars, adminVars, fnVars, swVars>>
\* the error callback of watchPosition: the watch itself is not cleared
PositionError(w) ==
    /\ w \in watches
    /\ IF w.mounted
       THEN /\ isSharing' = FALSE
            /\ locationWatcherId' = NULL
       ELSE UNCHANGED <<isSharing, locationWatcherId>>
    /\ publisherEvent' = "error"
    /\ UNCHANGED <<appVars, localStorage, now, step, routeConfig, watches,
                   inFlight, nextWatchId, screenVars, adminVars, fnVars, swVars>>

\* callbacks of a dashboard instance that is gone set state on nothing
unmounted(ws) == {[w EXCEPT !.mounted = FALSE] : w \in ws}

\* DriverDashboard.handleLogout: stopSharingLocation, then App's onLogout
handleLogout ==
    /\ dashboardShown
    /\ LET st == stopSharingLocation(publisher)
       IN /\ watches' = unmounted(st.watches)
          /\ MayLeaveInFlight(watches \ st.watches)
    /\ publisherEvent' = "stop"
    /\ loggedInDriver' = NULL
    /\ resetToScreen("welcome", NULL, localStorage)
    /\ UNCHANGED <<searchResults, trackingBus, notification, localStorage, now,
                   nextWatchId, adminVars, fnVars, swVars>>

\* time passes
Tick ==
    /\ now < Epoch + MaxNow
    /\ now' = now + 1
    /\ UNCHANGED <<appVars, localStorage, step, dashVars, geoVars, screenVars, adminVars, fnVars, swVars>>

-----------------------------------------------------------------------------
(* ETAEstimator: MapScreen.calculateETA.  Numbers are exact ratios [n, d]  *)
(* of naturals in lowest terms; Math.PI is the ratio 355/113.  The great-  *)
(* circle angle is taken for two points on one meridian or both on the     *)
(* equator, where the haversine expression gives the coordinate            *)
(* difference itself.                                                      *)

R == 6371
averageSpeed == 25
PiNumerator == 355
PiDenominator == 113

Abs(x) == IF x < 0 THEN 0 - x ELSE x

RECURSIVE gcd(_, _)
gcd(a, b) == IF b = 0 THEN a ELSE gcd(b, a % b)

Ratio(n, d) == LET g == gcd(n, d) IN [n |-> n \div g, d |-> d \div g]
Times(x, y) ==
    LET a == Ratio(x.n, y.d)
        b == Ratio(y.n, x.d)
    IN [n |-> a.n * b.n, d |-> a.d * b.d]
Over(x, y) == Times(x, [n |-> y.d, d |-> y.n])
Whole(k) == [n |-> k, d |-> 1]
MathPI == Ratio(PiNumerator, PiDenominator)

\* Math.floor of a ratio
MathFloor(x) == x.n \div x.d
\* Math.round of a ratio that is not negative: halves round up
MathRound(x) == (2 * x.n + x.d) \div (2 * x.d)

\* c = 2 * atan2(sqrt(a), sqrt(1 - a)), in thousandths of a degree
centralAngle(busLat, busLng, userLat, userLng) ==
    LET dLat == Abs(userLat - busLat)
        dLon == Abs(userLng - busLng)
    IN IF dLon = 0 THEN dLat
       ELSE IF dLon <= 180000 THEN dLon ELSE 360000 - dLon

calculateETA(busLat, busLng, userLat, userLng) ==
    LET degrees == Ratio(centralAngle(busLat, busLng, userLat, userLng), 1000)
        c == Over(Times(degrees, MathPI), Whole(180))
        distance == Times(Whole(R), c)
        timeInHours == Over(distance, Whole(averageSpeed))
        timeInMinutes == MathRound(Times(timeInHours, Whole(60)))
    IN IF timeInMinutes < 1 THEN "Arriving now"
       ELSE IF timeInMinutes = 1 THEN "1 minute"
       ELSE ToString(timeInMinutes) \o " minutes"

-----------------------------------------------------------------------------
(* LivenessEvaluator: BusList.checkBusOnline and MapScreen.updateBusLocation *)

\* a badge that still counts a record of exactly five minutes as online
checkBusOnlineInclusive(ls, routeId, time) ==
    LET locationData == getItem(ls, LocationKey(routeId))
    IN IF locationData = NULL THEN FALSE
       ELSE locationData[1].timestamp >= time - (5 * 60 * 1000)
\* BusList.checkBusOnline
checkBusOnline(ls, routeId, time) ==
    LET locationData == getItem(ls, LocationKey(routeId))
    IN IF locationData = NULL THEN FALSE
       ELSE LET fiveMinutesAgo == time - (5 * 60 * 1000)
            IN locationData[1].timestamp > fiveMinutesAgo

\* React renders BusList: one badge per search result
RenderBusList ==
    /\ currentScreen = "busList"
    /\ onlineBadge' = [i \in 1..Len(searchResults) |->
                         checkBusOnline(localStorage, searchResults[i].routeId, now)]
    /\ UNCHANGED <<appVars, localStorage, now, step, dashVars, geoVars, map,
                   isOnline, lastUpdate, eta, showingEta, etaEnabled,
                   userLocation, positionRequest, formVars, timerVars,
                   adminVars, fnVars, swVars>>

\* BusList: a bus card is clicked (App's onTrackBus)
TrackBus(i) ==
    /\ currentScreen = "busList"
    /\ i \in 1..Len(searchResults)
    /\ trackingBus' = searchResults[i].routeId
    /\ showScreen("map", loggedInDriver, localStorage)
    /\ UNCHANGED <<loggedInDriver, searchResults, notification, localStorage, now,
                   geoVars, adminVars, fnVars, swVars>>

\* a map status that still counts a record of exactly five minutes as recent
isRecentInclusive(timestamp, time) ==
    LET fiveMinutesAgo == time - (5 * 60 * 1000)
    IN timestamp >= fiveMinutesAgo
\* MapScreen: location is recent (within 5 minutes)
isRecent(timestamp, time) ==
    LET fiveMinutesAgo == time - (5 * 60 * 1000)
    IN timestamp > fiveMinutesAgo

\* the body of MapScreen.updateBusLocation, given the map it closed over
readBusLocation(hasMap) ==
    IF ~hasMap \/ trackingBus = <<>>
    THEN UNCHANGED <<isOnline, lastUpdate>>
    ELSE LET locationData == getItem(localStorage, LocationKey(trackingBus))
         IN IF locationData # NULL
            THEN /\ isOnline' = isRecent(locationData[1].timestamp, now)
                 /\ lastUpdate' = Some(locationData[1].timestamp)
            ELSE /\ isOnline' = FALSE
                 /\ lastUpdate' = NULL

\* MapScreen: Leaflet has loaded and the map is set; the effect on
\* [map, trackingBus] runs updateBusLocation and starts the 5 s interval
MapLoaded ==
    /\ currentScreen = "map"
    /\ ~map
    /\ map' = TRUE
    /\ readBusLocation(TRUE)
    /\ IF trackingBus # <<>>
       THEN /\ pollTimers' = pollTimers + 1
            /\ updateIntervalRef' = TRUE
       ELSE UNCHANGED timerVars
    /\ UNCHANGED <<appVars, localStorage, now, step, dashVars, geoVars,
                   onlineBadge, eta, showingEta, etaEnabled, userLocation,
                   positionRequest, formVars, adminVars, fnVars, swVars>>

\* a poll that also drops the record it found stale
updateBusLocationPruning ==
    /\ currentScreen = "map"
    /\ readBusLocation(map)
    /\ localStorage' = IF isOnline' THEN localStorage
                       ELSE removeItem(localStorage, LocationKey(trackingBus))
    /\ UNCHANGED <<appVars, now, step, dashVars, geoVars,
                   onlineBadge, map, eta, showingEta, etaEnabled, userLocation,
                   positionRequest, formVars, timerVars, adminVars, fnVars, swVars>>
\* MapScreen.updateBusLocation: a tick of the interval or a Refresh button
updateBusLocation ==
    /\ currentScreen = "map"
    /\ readBusLocation(map)
    /\ UNCHANGED <<appVars, localStorage, now, step, dashVars, geoVars,
                   onlineBadge, map, eta, showingEta, etaEnabled, userLocation,
                   positionRequest, formVars, timerVars, adminVars, fnVars, swVars>>

\* MapScreen.handleToggleETA; the button is disabled while showingEta
handleToggleETA ==
    /\ currentScreen = "map"
    /\ ~showingEta
    /\ IF ~etaEnabled
       THEN /\ showingEta' = TRUE
            /\ etaEnabled' = TRUE
            /\ positionRequest' = Some([map |-> map])
            /\ UNCHANGED <<eta, userLocation>>
       ELSE /\ etaEnabled' = FALSE
            /\ eta' = NULL
            /\ userLocation' = NULL
            /\ UNCHANGED <<showingEta, positionRequest>>
    /\ UNCHANGED <<appVars, localStorage, now, step, dashVars, geoVars,
                   onlineBadge, map, isOnline, lastUpdate, formVars, timerVars, adminVars, fnVars, swVars>>

\* MapScreen: the OFF button next to the toggle
EtaOff ==
    /\ currentScreen = "map"
    /\ etaEnabled
    /\ etaEnabled' = FALSE
    /\ eta' = NULL
    /\ UNCHANGED <<appVars, localStorage, now, step, dashVars, geoVars,
                   onlineBadge, map, isOnline, lastUpdate, showingEta,
                   userLocation, positionRequest, formVars, timerVars, adminVars, fnVars, swVars>>

\* getCurrentPosition succeeds
UserPosition(position) ==
    /\ currentScreen = "map"
    /\ positionRequest # NULL
    /\ userLocation' = Some(position)
    /\ LET locationData == getItem(localStorage, LocationKey(trackingBus))
       IN IF locationData # NULL /\ positionRequest[1].map
          THEN eta' = Some(calculateETA(locationData[1].lat, locationData[1].lng,
                                        position.lat, position.lng))
          ELSE UNCHANGED eta
    /\ showingEta' = FALSE
    /\ positionRequest' = NULL
    /\ UNCHANGED <<appVars, localStorage, now, step, dashVars, geoVars,
                   onlineBadge, map, isOnline, lastUpdate, etaEnabled, formVars, timerVars, adminVars, fnVars, swVars>>

\* getCurrentPosition fails
UserPositionError ==
    /\ currentScreen = "map"
    /\ positionRequest # NULL
    /\ showingEta' = FALSE
    /\ etaEnabled' = FALSE
    /\ positionRequest' = NULL
    /\ UNCHANGED <<appVars, localStorage, now, step, dashVars, geoVars,
                   onlineBadge, map, isOnline, lastUpdate, eta, userLocation,
                   formVars, timerVars, adminVars, fnVars, swVars>>

-----------------------------------------------------------------------------
(* The administrator: AdminLogin, AdminDashboard, AdminDriverCreate and    *)
(* AdminDriverDetail.  App renders AdminLogin when currentScreen is        *)
(* 'adminLogin'; no control of the screens in the sources sets it, so the  *)
(* step that brings the screen up belongs to the navigation host.          *)
(* The clock has moved on by one whenever the administrator or a driver    *)
(* saves or deletes something, and no save happens after Epoch + MaxNow.   *)

validAdmins ==
    {[username |-> "admin", password |-> "admin123"],
     [username |-> "citybus_admin", password |-> "citybus2024"]}

AdminInputs ==
    {[username |-> "admin", password |-> "admin123"],
     [username |-> "admin", password |-> "citybus2024"]}

\* a screen is replaced from outside its own handlers: a dashboard that is
\* sharing leaves its position watch behind
leaveScreen ==
    watches' = IF currentScreen = "driverDashboard" THEN unmounted(watches)
               ELSE watches

\* App shows AdminLogin
OpenAdminLogin ==
    /\ currentScreen = "welcome"
    /\ showScreen("adminLogin", loggedInDriver, localStorage)
    /\ UNCHANGED <<loggedInDriver, searchResults, trackingBus, notification,
                   localStorage, now, geoVars, adminVars, fnVars, swVars>>

\* AdminLogin.handleLogin: the check itself runs one second later; the
\* button is disabled while it is pending
handleLogin(credentials) ==
    /\ currentScreen = "adminLogin"
    /\ adminLoginTimer = NULL
    /\ adminLoginTimer' = Some(credentials)
    /\ UNCHANGED <<appVars, localStorage, now, step, dashVars, geoVars,
                   screenVars, loggedInAdmin, selectedDriverId, fnVars, swVars>>

\* the callback handleLogin gave to setTimeout; nothing cancels it when the
\* screen is left
AdminLoginTimeout ==
    /\ adminLoginTimer # NULL
    /\ adminLoginTimer' = NULL
    /\ IF adminLoginTimer[1] \in validAdmins
       THEN /\ loggedInAdmin' = adminLoginTimer
            /\ notification' = "welcomeAdmin"
            /\ showScreen("adminDashboard", loggedInDriver, localStorage)
            /\ leaveScreen
       ELSE /\ notification' = "invalidAdminCredentials"
            /\ UNCHANGED <<currentScreen, screenHistory, loggedInAdmin, step,
                           dashVars, screenVars, watches>>
    /\ UNCHANGED <<loggedInDriver, searchResults, trackingBus, localStorage,
                   now, inFlight, nextWatchId, publisherEvent,
                   selectedDriverId, fnVars, swVars>>

\* AdminDashboard renders its controls only for a signed-in administrator
adminDashboardShown ==
    /\ currentScreen = "adminDashboard"
    /\ loggedInAdmin # NULL

\* AdminDashboard: the logout button (App's onLogout)
adminLogout ==
    /\ adminDashboardShown
    /\ loggedInAdmin' = NULL
    /\ resetToScreen("welcome", loggedInDriver, localStorage)
    /\ UNCHANGED <<loggedInDriver, searchResults, trackingBus, notification,
                   localStorage, now, geoVars, selectedDriverId,
                   adminLoginTimer, fnVars, swVars>>

\* AdminDashboard: "Add New Driver"
DashboardToCreate ==
    /\ adminDashboardShown
    /\ showScreen("adminDriverCreate", loggedInDriver, localStorage)
    /\ UNCHANGED <<loggedInDriver, searchResults, trackingBus, notification,
                   localStorage, now, geoVars, adminVars, fnVars, swVars>>

\* the ids of the drivers the dashboard lists
listedIds == {drivers[i].id : i \in 1..Len(drivers)}

\* AdminDashboard.handleDriverClick
handleDriverClick(driverId) ==
    /\ adminDashboardShown
    /\ driverId \in listedIds
    /\ selectedDriverId' = driverId
    /\ showScreen("adminDriverDetail", loggedInDriver, localStorage)
    /\ UNCHANGED <<loggedInDriver, searchResults, trackingBus, notification,
                   localStorage, now, geoVars, loggedInAdmin, adminLoginTimer,
                   fnVars, swVars>>

\* Array.prototype.find on the drivers with this id
findById(ds, driverId) ==
    LET found == SelectSeq(ds, LAMBDA d : d.id = driverId)
    IN IF found = <<>> THEN NULL ELSE Some(found[1])

\* AdminDashboard.getDriverRoute, on the listed drivers ds and the store ls
getDriverRoute(ds, ls, driverId) ==
    IF findById(ds, driverId) = NULL THEN NULL
    ELSE getItem(ls, RouteKey(findById(ds, driverId)[1].phone))

RegistryKey == Key("registered_drivers", <<>>)

\* the store after AdminDashboard.deleteDriver, the deletion confirmed
deleteFromStore(ds, ls, driverId) ==
    LET deleted == findById(ds, driverId)[1]
        updatedDrivers == SelectSeq(ds, LAMBDA d : d.id # driverId)
        withoutRoute == removeItem(setItem(ls, RegistryKey, updatedDrivers),
                                   RouteKey(deleted.phone))
        route == getDriverRoute(ds, withoutRoute, driverId)
    IN IF route # NULL
       THEN removeItem(withoutRoute, LocationKey(route[1].routeId))
       ELSE withoutRoute

\* AdminDashboard.deleteDriver, the confirm dialog answered with OK
deleteDriver(driverId) ==
    /\ adminDashboardShown
    /\ driverId \in listedIds
    /\ now < Epoch + MaxNow
    /\ now' = now + 1
    /\ drivers' = SelectSeq(drivers, LAMBDA d : d.id # driverId)
    /\ localStorage' = deleteFromStore(drivers, localStorage, driverId)
    /\ UNCHANGED <<appVars, step, dashVars, geoVars, mapVars,
                   detailDriver, isEditing, configStops, timerVars, adminVars,
                   fnVars, swVars>>

-----------------------------------------------------------------------------
(* AdminDriverCreate.handleSave and AdminDriverDetail.handleSave *)

AdminPhoneInputs == {<<"1">>, <<"2", " ">>}

\* driver forms, one of them without a name
AdminFormInputs ==
    [name : {"Asha"}, phone : AdminPhoneInputs, password : {"secret1"}]
    \cup {[name |-> "", phone |-> <<"1">>, password |-> "secret1"]}

\* route forms: complete, without a stop, with a blank and with an empty
\* route id
AdminRouteInputs ==
    {[routeId |-> <<"8">>, startTime |-> "09:00", endTime |-> "17:00",
       stops |-> <<<<"a">>, <<>>, <<"b", " ">>>>],
     [routeId |-> <<"8">>, startTime |-> "09:00", endTime |-> "17:00",
       stops |-> <<<<>>, <<" ">>>>],
     [routeId |-> <<" ">>, startTime |-> "09:00", endTime |-> "17:00",
       stops |-> <<<<>>>>],
     [routeId |-> <<>>, startTime |-> "", endTime |-> "",
       stops |-> <<<<>>>>]}

\* name, phone or password is left blank
detailsMissing(formData) ==
    formData.name = "" \/ isBlank(formData.phone) \/ formData.password = ""

\* AdminDriverCreate.handleSave; the id holds the time of the save, and the
\* next save happens later
createHandleSave(formData, routeData) ==
    /\ currentScreen = "adminDriverCreate"
    /\ now < Epoch + MaxNow
    /\ Len(registeredDrivers(localStorage)) < MaxDrivers
    /\ LET existingDrivers == registeredDrivers(localStorage)
           newDriver == [id |-> <<formData.phone, now>>,
                         name |-> formData.name,
                         phone |-> trim(formData.phone),
                         password |-> formData.password]
           saved == setItem(setItem(localStorage, RegistryKey,
                                    Append(existingDrivers, newDriver)),
                            RouteKey(newDriver.phone), makeRouteConfig(routeData))
       IN IF detailsMissing(formData)
          THEN /\ notification' = "fillInDriverDetails"
               /\ UNCHANGED <<currentScreen, screenHistory, localStorage, now,
                              step, dashVars, screenVars>>
          ELSE IF routeIncomplete(routeData)
          THEN /\ notification' = "completeRouteDetails"
               /\ UNCHANGED <<currentScreen, screenHistory, localStorage, now,
                              step, dashVars, screenVars>>
          ELSE IF \E i \in 1..Len(existingDrivers) :
                     existingDrivers[i].phone = trim(formData.phone)
          THEN /\ notification' = "driverExists"
               /\ UNCHANGED <<currentScreen, screenHistory, localStorage, now,
                              step, dashVars, screenVars>>
          ELSE /\ localStorage' = saved
               /\ notification' = "driverCreated"
               /\ now' = now + 1
               /\ popScreen(loggedInDriver, saved)
    /\ UNCHANGED <<loggedInDriver, searchResults, trackingBus, geoVars,
                   adminVars, fnVars, swVars>>

\* AdminDriverDetail: the Edit / Cancel button
toggleEditing ==
    /\ currentScreen = "adminDriverDetail"
    /\ detailDriver # NULL
    /\ isEditing' = ~isEditing
    /\ UNCHANGED <<appVars, localStorage, now, step, dashVars, geoVars, mapVars,
                   drivers, detailDriver, configStops, timerVars, adminVars,
                   fnVars, swVars>>

\* the detail form names a route and leaves it incomplete
detailRouteIncomplete(routeData) ==
    /\ routeData.routeId # <<>>
    /\ \/ routeData.startTime = ""
       \/ routeData.endTime = ""
       \/ \A i \in 1..Len(routeData.stops) : isBlank(routeData.stops[i])

\* the store after AdminDriverDetail.handleSave has updated driver i of the
\* registry; old is the driver the screen loaded
saveDetail(ls, i, old, formData, routeData) ==
    LET all == registeredDrivers(ls)
        updatedDriver == [all[i] EXCEPT !.name = formData.name,
                                        !.phone = trim(formData.phone),
                                        !.password = formData.password]
        s1 == setItem(ls, RegistryKey, [all EXCEPT ![i] = updatedDriver])
        s2 == IF old.phone # formData.phone /\ hasItem(s1, RouteKey(old.phone))
              THEN setItem(removeItem(s1, RouteKey(old.phone)),
                           RouteKey(formData.phone),
                           getItem(s1, RouteKey(old.phone))[1])
              ELSE s1
    IN IF ~isBlank(routeData.routeId)
       THEN setItem(s2, RouteKey(formData.phone), makeRouteConfig(routeData))
       ELSE s2

\* AdminDriverDetail.handleSave
detailHandleSave(formData, routeData) ==
    /\ currentScreen = "adminDriverDetail"
    /\ isEditing
    /\ detailDriver # NULL
    /\ now < Epoch + MaxNow
    /\ LET all == registeredDrivers(localStorage)
           matching == {i \in 1..Len(all) : all[i].id = selectedDriverId}
           driverIndex == CHOOSE i \in matching : \A j \in matching : i <= j
       IN IF detailsMissing(formData)
          THEN /\ notification' = "fillInDriverDetails"
               /\ UNCHANGED <<localStorage, detailDriver, isEditing, now>>
          ELSE IF detailRouteIncomplete(routeData)
          THEN /\ notification' = "completeRouteDetails"
               /\ UNCHANGED <<localStorage, detailDriver, isEditing, now>>
          ELSE IF matching = {}
          THEN UNCHANGED <<notification, localStorage, detailDriver, isEditing, now>>
          ELSE /\ localStorage' = saveDetail(localStorage, driverIndex,
                                             detailDriver[1], formData, routeData)
               /\ detailDriver' =
                    Some([all[driverIndex] EXCEPT !.name = formData.name,
                                                  !.phone = trim(formData.phone),
                                                  !.password = formData.password])
               /\ isEditing' = FALSE
               /\ notification' = "driverUpdated"
               /\ now' = now + 1
    /\ UNCHANGED <<currentScreen, screenHistory, loggedInDriver, searchResults,
                   trackingBus, step, dashVars, geoVars, mapVars, drivers,
                   configStops, timerVars, adminVars, fnVars, swVars>>

-----------------------------------------------------------------------------
(* The driver's own screens: DriverConfig and DriverEdit, opened from the  *)
(* dashboard.                                                              *)

\* DriverDashboard: "Edit Route"; the dashboard has no cleanup for its watch
DashboardToConfig ==
    /\ dashboardShown
    /\ watches' = unmounted(watches)
    /\ showScreen("driverConfig", loggedInDriver, localStorage)
    /\ UNCHANGED <<loggedInDriver, searchResults, trackingBus, notification,
                   localStorage, now, inFlight, nextWatchId, publisherEvent,
                   adminVars, fnVars, swVars>>

\* DriverDashboard: the edit-profile buttons
DashboardToEdit ==
    /\ dashboardShown
    /\ watches' = unmounted(watches)
    /\ showScreen("driverEdit", loggedInDriver, localStorage)
    /\ UNCHANGED <<loggedInDriver, searchResults, trackingBus, notification,
                   localStorage, now, inFlight, nextWatchId, publisherEvent,
                   adminVars, fnVars, swVars>>

NewStopInputs == {<<"a">>, <<"B", " ">>, <<" ">>}

\* DriverConfig.addStop
addStop(newStop) ==
    /\ currentScreen = "driverConfig"
    /\ Len(configStops) < MaxStops
    /\ LET stopName == trim(newStop)
       IN configStops' =
            IF /\ stopName # <<>>
               /\ \A i \in 1..Len(configStops) : configStops[i] # toLowerCase(stopName)
            THEN Append(configStops, toLowerCase(stopName))
            ELSE configStops
    /\ UNCHANGED <<appVars, localStorage, now, step, dashVars, geoVars, mapVars,
                   drivers, detailDriver, isEditing, timerVars, adminVars,
                   fnVars, swVars>>

\* DriverConfig.removeStop
removeStop(index) ==
    /\ currentScreen = "driverConfig"
    /\ index \in 1..Len(configStops)
    /\ configStops' = [i \in 1..(Len(configStops) - 1) |->
                         IF i < index THEN configStops[i] ELSE configStops[i + 1]]
    /\ UNCHANGED <<appVars, localStorage, now, step, dashVars, geoVars, mapVars,
                   drivers, detailDriver, isEditing, timerVars, adminVars,
                   fnVars, swVars>>

ConfigInputs ==
    [busNumber : {<<"9">>}, startTime : {"09:00"}, endTime : {"17:00"}]

\* DriverConfig.onSubmit; the submit button is disabled below two stops
configSubmit(data) ==
    /\ currentScreen = "driverConfig"
    /\ loggedInDriver # NULL
    /\ Len(configStops) >= 2
    /\ now < Epoch + MaxNow
    /\ now' = now + 1
    /\ LET saved == setItem(localStorage, RouteKey(loggedInDriver[1].phone),
                            [routeId |-> data.busNumber,
                             startTime |-> data.startTime,
                             endTime |-> data.endTime,
                             stops |-> configStops])
       IN /\ localStorage' = saved
          /\ notification' = "routeConfigured"
          /\ showScreen("driverDashboard", loggedInDriver, saved)
    /\ UNCHANGED <<loggedInDriver, searchResults, trackingBus, geoVars,
                   adminVars, fnVars, swVars>>

EditInputs ==
    [name : {"Asha"}, phone : {<<"1">>, <<"2">>},
     currentPassword : {"secret1", "secret2"}, newPassword : {""}]

\* DriverEdit.onSubmit
editSubmit(data) ==
    /\ currentScreen = "driverEdit"
    /\ loggedInDriver # NULL
    /\ now < Epoch + MaxNow
    /\ LET old == loggedInDriver[1]
           phoneChanged == data.phone # old.phone
           routeConfigOld == getItem(localStorage, RouteKey(old.phone))
           s1 == IF phoneChanged
                 THEN removeItem(localStorage, DriverKey(old.phone))
                 ELSE localStorage
           s2 == IF phoneChanged /\ routeConfigOld # NULL
                 THEN setItem(removeItem(s1, RouteKey(old.phone)),
                              RouteKey(data.phone), routeConfigOld[1])
                 ELSE s1
           updatedDriver == [id |-> <<>>, name |-> data.name, phone |-> data.phone,
                             password |-> IF data.newPassword # ""
                                          THEN data.newPassword ELSE old.password]
           saved == setItem(s2, DriverKey(data.phone), updatedDriver)
       IN IF data.currentPassword # old.password
          THEN /\ notification' = "currentPasswordIncorrect"
               /\ UNCHANGED <<currentScreen, screenHistory, loggedInDriver,
                              localStorage, now, step, dashVars, screenVars>>
          ELSE IF phoneChanged /\ hasItem(localStorage, DriverKey(data.phone))
          THEN /\ notification' = "driverExists"
               /\ UNCHANGED <<currentScreen, screenHistory, loggedInDriver,
                              localStorage, now, step, dashVars, screenVars>>
          ELSE /\ localStorage' = saved
               /\ loggedInDriver' = Some(updatedDriver)
               /\ notification' = "profileUpdated"
               /\ now' = now + 1
               /\ popScreen(Some(updatedDriver), saved)
    /\ UNCHANGED <<searchResults, trackingBus, geoVars, adminVars, fnVars, swVars>>

-----------------------------------------------------------------------------
(* The service worker: the install and fetch handlers.  A fetch event is   *)
(* one step from caches.match to the answer given to respondWith, taking   *)
(* the outcome the network has for it; the cache.put it starts is not      *)
(* awaited and is carried out by a later step.                             *)

\* the install handler: cache.addAll stores all of STATIC_CACHE_URLS or,
\* when one of them cannot be fetched, none; the failure is caught and the
\* worker is installed either way
InstallEvent(cached) ==
    /\ swState = "parsed"
    /\ swState' = "activated"
    /\ cache' = IF cached
                THEN [cache EXCEPT ![[scheme |-> "https", path |-> "/"]] =
                        Some([ok |-> TRUE, body |-> "installed"])]
                ELSE cache
    /\ UNCHANGED <<appVars, localStorage, now, step, dashVars, geoVars,
                   screenVars, adminVars, fnVars, pendingPuts, responded>>

\* a fetch handler that answers every cached request from the cache
FetchEventCacheFirst(request, outcome) ==
    /\ swState = "activated"
    /\ LET cachedResponse == cache[request.url]
           handled == /\ request.method = "GET"
                      /\ request.url.scheme \in {"http", "https"}
           network == handled /\ cachedResponse = NULL
           answer ==
               IF ~handled THEN NULL
               ELSE IF cachedResponse # NULL THEN cachedResponse
               ELSE IF outcome # NULL THEN outcome
               ELSE IF request.mode = "navigate"
               THEN cache[[scheme |-> "https", path |-> "/"]]
               ELSE NULL
       IN /\ responded' = Some([request |-> request, handled |-> handled,
                                cached |-> cachedResponse, network |-> network,
                                outcome |-> IF network THEN outcome ELSE NULL,
                                answer |-> answer])
          /\ pendingPuts' = IF network /\ outcome # NULL /\ outcome[1].ok
                            THEN pendingPuts \cup
                                 {[url |-> request.url, response |-> outcome[1]]}
                            ELSE pendingPuts
    /\ UNCHANGED <<appVars, localStorage, now, step, dashVars, geoVars,
                   screenVars, adminVars, fnVars, swState, cache>>
\* a fetch handler that stores whatever response the network gave
FetchEventStoringAll(request, outcome) ==
    /\ swState = "activated"
    /\ LET cachedResponse == cache[request.url]
           handled == /\ request.method = "GET"
                      /\ request.url.scheme \in {"http", "https"}
           network == handled /\ (cachedResponse = NULL \/ request.mode = "navigate")
           answer ==
               IF ~handled THEN NULL
               ELSE IF cachedResponse # NULL
               THEN IF request.mode = "navigate" /\ outcome # NULL /\ outcome[1].ok
                    THEN outcome ELSE cachedResponse
               ELSE IF outcome # NULL THEN outcome
               ELSE IF request.mode = "navigate"
               THEN cache[[scheme |-> "https", path |-> "/"]]
               ELSE NULL
       IN /\ responded' = Some([request |-> request, handled |-> handled,
                                cached |-> cachedResponse, network |-> network,
                                outcome |-> IF network THEN outcome ELSE NULL,
                                answer |-> answer])
          /\ pendingPuts' = IF network /\ outcome # NULL
                            THEN pendingPuts \cup
                                 {[url |-> request.url, response |-> outcome[1]]}
                            ELSE pendingPuts
    /\ UNCHANGED <<appVars, localStorage, now, step, dashVars, geoVars,
                   screenVars, adminVars, fnVars, swState, cache>>
\* the fetch handler.  The answer is the response respondWith resolves
\* with; it is null when the handler returns without respondWith, when the
\* promise rejects and when caches.match('/') finds nothing.
FetchEvent(request, outcome) ==
    /\ swState = "activated"
    /\ LET cachedResponse == cache[request.url]
           handled == /\ request.method = "GET"
                      /\ request.url.scheme \in {"http", "https"}
           network == handled /\ (cachedResponse = NULL \/ request.mode = "navigate")
           answer ==
               IF ~handled THEN NULL
               ELSE IF cachedResponse # NULL
               THEN IF request.mode = "navigate" /\ outcome # NULL /\ outcome[1].ok
                    THEN outcome ELSE cachedResponse
               ELSE IF outcome # NULL THEN outcome
               ELSE IF request.mode = "navigate"
               THEN cache[[scheme |-> "https", path |-> "/"]]
               ELSE NULL
       IN /\ responded' = Some([request |-> request, handled |-> handled,
                                cached |-> cachedResponse, network |-> network,
                                outcome |-> IF network THEN outcome ELSE NULL,
                                answer |-> answer])
          /\ pendingPuts' = IF network /\ outcome # NULL /\ outcome[1].ok
                            THEN pendingPuts \cup
                                 {[url |-> request.url, response |-> outcome[1]]}
                            ELSE pendingPuts
    /\ UNCHANGED <<appVars, localStorage, now, step, dashVars, geoVars,
                   screenVars, adminVars, fnVars, swState, cache>>

\* caches.open(CACHE_NAME).then(cache => cache.put(event.request, clone))
CachePut(put) ==
    /\ put \in pendingPuts
    /\ cache' = [cache EXCEPT ![put.url] = Some(put.response)]
    /\ pendingPuts' = pendingPuts \ {put}
    /\ UNCHANGED <<appVars, localStorage, now, step, dashVars, geoVars,
                   screenVars, adminVars, fnVars, swState, responded>>

-----------------------------------------------------------------------------
(* Specifications *)

Navigate ==
    \/ WelcomeDriverPortal
    \/ WelcomeFindMyBus
    \/ LoginToRegister
    \/ RegisterToLogin
    \/ goBack
    \/ goHome
    \/ prevStep

\* registration, login and route search
Next ==
    \/ Navigate
    \/ \E data \in RegisterInputs, routeData \in RouteInputs : RegisterSubmit(data, routeData)
    \/ \E data \in LoginInputs : LoginSubmit(data)
    \/ \E data \in SearchInputs : SearchSubmit(data)
    \/ handleLogout

Spec == Init /\ [][Next]_vars

\* the driver's side alone: one driver, one route, the dashboard and the
\* position source
ShareDriver == [name |-> "Asha", phone |-> <<"1">>, password |-> "secret1"]
ShareRoute == [routeId |-> <<"7">>, startTime |-> "09:00", endTime |-> "17:00",
               stops |-> <<<<"b">>>>]

NextShare ==
    \/ WelcomeDriverPortal
    \/ LoginToRegister
    \/ RegisterSubmit(ShareDriver, ShareRoute)
    \/ LoginSubmit([phone |-> ShareDriver.phone, password |-> ShareDriver.password])
    \/ toggleLocationSharing
    \/ \E w \in watches, position \in Coords : PositionUpdate(w, position)
    \/ \E w \in inFlight, position \in Coords : LateUpdate(w, position)
    \/ \E w \in watches : PositionError(w)
    \/ handleLogout
    \/ Tick

SpecShare == Init /\ [][NextShare]_vars

\* the commuter's side alone: the store as a driver's earlier session left
\* it, with or without a LocationRecord for the route
TrackQuery == [startLocation |-> <<"b", "a">>, destinationLocation |-> <<"A", "b">>]
\* a valid query that no stop of the stored route matches
MissQuery == [startLocation |-> <<"a", "a">>, destinationLocation |-> <<"a", " ">>]
TrackStore ==
    setItem(setItem(<<>>, DriverKey(ShareDriver.phone),
                    [id |-> Epoch - RecordAge, name |-> ShareDriver.name, phone |-> ShareDriver.phone,
                     password |-> ShareDriver.password]),
            RouteKey(ShareDriver.phone), makeRouteConfig(ShareRoute))
TrackRecordTimes == {Epoch - RecordAge, Epoch}

InitTrack ==
    /\ InitApp /\ InitComponents /\ InitGeo /\ InitFn /\ InitSW
    /\ now = Epoch
    /\ \/ localStorage = TrackStore
       \/ \E t \in TrackRecordTimes :
            localStorage = writeLocation(TrackStore, ShareRoute.routeId,
                                         [lat |-> 20594, lng |-> 78963], t)

NextTrack ==
    \/ WelcomeFindMyBus
    \/ SearchSubmit(TrackQuery)
    \/ SearchSubmit(MissQuery)
    \/ RenderBusList
    \/ \E i \in 1..MaxStops : TrackBus(i)
    \/ MapLoaded
    \/ updateBusLocation
    \/ handleToggleETA
    \/ EtaOff
    \/ \E position \in Coords : UserPosition(position)
    \/ UserPositionError
    \/ goBack
    \/ Tick

SpecTrack == InitTrack /\ [][NextTrack]_vars

\* ETAEstimator applied to a bus and a user on one meridian, or both on the
\* equator, up to MaxDelta thousandths of a degree apart, and about 25 km apart
EtaDeltas == (0 - MaxDelta)..MaxDelta \cup {225}
EtaInputs ==
    {[fn |-> "calculateETA", bus |-> b, user |-> [lat |-> b.lat + k, lng |-> b.lng]] :
        b \in {[lat |-> 20594, lng |-> 78963], [lat |-> 0, lng |-> 0]}, k \in EtaDeltas}
    \cup
    {[fn |-> "calculateETA", bus |-> [lat |-> 0, lng |-> 0],
      user |-> [lat |-> 0, lng |-> k]] : k \in EtaDeltas}

InitETA ==
    /\ InitApp /\ InitComponents /\ InitGeo /\ InitSW
    /\ localStorage = <<>>
    /\ now = Epoch
    /\ fnInput \in EtaInputs
    /\ fnResult = NULL

EvalETA ==
    /\ fnInput \in EtaInputs
    /\ fnResult = NULL
    /\ fnResult' = Some(calculateETA(fnInput.bus.lat, fnInput.bus.lng,
                                     fnInput.user.lat, fnInput.user.lng))
    /\ UNCHANGED <<appVars, localStorage, now, step, dashVars, geoVars, screenVars, adminVars, fnInput, swVars>>

SpecETA == InitETA /\ [][EvalETA]_vars

\* StopMatcher applied to one query as typed and one stop name as stored:
\* queries pass the form and are not blank, stored stops are not blank
MatchInputs ==
    {[fn |-> "stopMatcher", query |-> q, stop |-> t] :
        q \in {x \in Strings(MaxStrLen) : Len(x) >= 2 /\ ~isBlank(x)},
        t \in {x \in Strings(MaxStrLen) : ~isBlank(x)}}

InitMatch ==
    /\ InitApp /\ InitComponents /\ InitGeo /\ InitSW
    /\ localStorage = <<>>
    /\ now = Epoch
    /\ fnInput \in MatchInputs
    /\ fnResult = NULL

EvalMatch ==
    /\ fnInput \in MatchInputs
    /\ fnResult = NULL
    /\ fnResult' = Some(stopMatches(fnInput.stop, normalizeQuery(fnInput.query)))
    /\ UNCHANGED <<appVars, localStorage, now, step, dashVars, geoVars, screenVars, adminVars, fnInput, swVars>>

SpecMatch == InitMatch /\ [][EvalMatch]_vars

\* The driver publishing and the commuter searching and tracking, on one
\* device over one store.
NextBoth == NextShare \/ NextTrack

SpecBoth == Init /\ [][NextBoth]_vars

\* The driver's side with the dashboard's ways out to DriverConfig and
\* DriverEdit and the way back.
NextDash ==
    \/ NextShare
    \/ DashboardToConfig
    \/ DashboardToEdit
    \/ goBack

SpecDash == Init /\ [][NextDash]_vars

\* App's navigation functions on their own, called with any of these
\* screens in any order.
NavScreens == {"welcome", "driverLogin", "commuterSearch", "busList"}

AppShowScreen(screen) ==
    /\ showScreen(screen, loggedInDriver, localStorage)
    /\ UNCHANGED <<loggedInDriver, searchResults, trackingBus, notification,
                   localStorage, now, geoVars, adminVars, fnVars, swVars>>

AppGoBack ==
    /\ UNCHANGED <<loggedInDriver, searchResults, trackingBus, notification,
                   localStorage, now, geoVars, adminVars, fnVars, swVars>>
    /\ popScreen(loggedInDriver, localStorage)

AppResetToScreen(screen) ==
    /\ resetToScreen(screen, loggedInDriver, localStorage)
    /\ UNCHANGED <<loggedInDriver, searchResults, trackingBus, notification,
                   localStorage, now, geoVars, adminVars, fnVars, swVars>>

NextNav ==
    \/ \E screen \in NavScreens : AppShowScreen(screen)
    \/ AppGoBack
    \/ \E screen \in NavScreens : AppResetToScreen(screen)
    \/ goHome

SpecNav == Init /\ [][NextNav]_vars

\* The service worker on its own: installed once, then fetch events in any
\* order with any network outcome, and the cache writes they started.
NextSW ==
    \/ \E cached \in BOOLEAN : InstallEvent(cached)
    \/ \E request \in SWRequests, outcome \in NetworkOutcomes :
          FetchEvent(request, outcome)
    \/ \E put \in pendingPuts : CachePut(put)

SpecSW == Init /\ [][NextSW]_vars

\* The administrator's and the drivers' screens over a store that holds a
\* self-registered driver with a route, a driver the administrator created,
\* that driver's route and the record the driver's bus has published.
SelfDriver ==
    [id |-> Epoch - RecordAge, name |-> "Asha", phone |-> <<"3">>,
     password |-> "secret1"]
SelfRoute ==
    [routeId |-> <<"9">>, startTime |-> "09:00", endTime |-> "17:00",
     stops |-> <<<<"b">>>>]
AdminDriver ==
    [id |-> <<ShareDriver.phone, Epoch - RecordAge>>, name |-> ShareDriver.name,
     phone |-> ShareDriver.phone, password |-> ShareDriver.password]
AdminStore ==
    writeLocation(
        setItem(setItem(setItem(setItem(<<>>, DriverKey(SelfDriver.phone), SelfDriver),
                                RouteKey(SelfDriver.phone), SelfRoute),
                        RegistryKey, <<AdminDriver>>),
                RouteKey(AdminDriver.phone), makeRouteConfig(ShareRoute)),
        ShareRoute.routeId, [lat |-> 20594, lng |-> 78963], Epoch - RecordAge)

InitAdmin ==
    /\ InitApp /\ InitComponents /\ InitGeo /\ InitFn /\ InitSW
    /\ now = Epoch
    /\ localStorage = AdminStore

NextAdmin ==
    \/ OpenAdminLogin
    \/ \E credentials \in AdminInputs : handleLogin(credentials)
    \/ AdminLoginTimeout
    \/ adminLogout
    \/ DashboardToCreate
    \/ \E driverId \in listedIds : handleDriverClick(driverId)
    \/ \E driverId \in listedIds : deleteDriver(driverId)
    \/ \E formData \in AdminFormInputs, routeData \in AdminRouteInputs :
          createHandleSave(formData, routeData)
    \/ toggleEditing
    \/ \E formData \in AdminFormInputs, routeData \in AdminRouteInputs :
          detailHandleSave(formData, routeData)
    \/ WelcomeDriverPortal
    \/ \E data \in LoginInputs : LoginSubmit(data)
    \/ DashboardToConfig
    \/ DashboardToEdit
    \/ \E newStop \in NewStopInputs : addStop(newStop)
    \/ \E index \in 1..MaxStops : removeStop(index)
    \/ \E data \in ConfigInputs : configSubmit(data)
    \/ \E data \in EditInputs : editSubmit(data)
    \/ handleLogout
    \/ WelcomeFindMyBus
    \/ SearchSubmit(TrackQuery)
    \/ goBack
    \/ goHome

SpecAdmin == InitAdmin /\ [][NextAdmin]_vars

-----------------------------------------------------------------------------
(* The specification's vocabulary, stated on its own terms *)

\* lowercase, then drop leading and trailing whitespace
Normalized(text) ==
    LET lower == [i \in 1..Len(text) |->
                    IF text[i] = "A" THEN "a" ELSE IF text[i] = "B" THEN "b" ELSE text[i]]
        inked == {i \in 1..Len(text) : lower[i] # " "}
    IN IF inked = {} THEN <<>>
       ELSE SubSeq(lower, CHOOSE i \in inked : \A j \in inked : i <= j,
                          CHOOSE i \in inked : \A j \in inked : i >= j)

\* t is a substring of s
Contains(s, t) == \E i \in 1..(Len(s) + 1) : \E j \in (i - 1)..Len(s) : SubSeq(s, i, j) = t

\* section 4.1: bidirectional containment of the normalized texts
SpecStopMatcher(query, stop) ==
    \/ Contains(Normalized(stop), Normalized(query))
    \/ Contains(Normalized(query), Normalized(stop))

\* section 4.2: rejected queries
InvalidQuery(data) ==
    \/ Normalized(data.startLocation) = <<>>
    \/ Normalized(data.destinationLocation) = <<>>
    \/ Normalized(data.startLocation) = Normalized(data.destinationLocation)

InvalidInputs == {data \in SearchInputs : InvalidQuery(data)}
ValidInputs == SearchInputs \ InvalidInputs

\* section 4.2: a route qualifies
Qualifies(route, data) ==
    /\ \E i \in 1..Len(route.stops) : SpecStopMatcher(data.startLocation, route.stops[i])
    /\ \E j \in 1..Len(route.stops) : SpecStopMatcher(data.destinationLocation, route.stops[j])

storedRoutes == {localStorage[i].val : i \in {k \in 1..Len(localStorage) :
                                              localStorage[k].key.pfx = "route_config_"}}

Range(seq) == {seq[i] : i \in 1..Len(seq)}

\* the LocationRecords the store holds, and those of one route
locationRecords == SelectSeq(localStorage, LAMBDA e : e.key.pfx = "bus_location_")
recordsOf(ls, routeId) == SelectSeq(ls, LAMBDA e : e.key = LocationKey(routeId))

-----------------------------------------------------------------------------
(* Claims *)

\* C1: for a valid search over the stored routes, the search returns a
\* route if and only if one of its stops matches the start query and one of
\* its stops matches the destination query (StopMatcher of section 4.1): the
\* routes shown on the bus list are exactly the qualifying ones, and no bus
\* list is shown when none qualifies.
C1_SearchReturnsQualifyingRoutes ==
    [][currentScreen = "commuterSearch" => \A data \in ValidInputs :
          SearchSubmit(data) =>
              LET qualifying == {r \in storedRoutes : Qualifies(r, data)}
              IN IF qualifying = {}
                 THEN currentScreen' = "commuterSearch"
                 ELSE currentScreen' = "busList" /\ Range(searchResults') = qualifying]_vars

\* C2: the stop match is true exactly when, after lowercasing and trimming
\* both the query and the stop name, one contains the other; so a stored stop
\* with surrounding whitespace matches exactly what its trimmed form matches.
C2_MatchNormalizesBoth ==
    (fnInput \in MatchInputs /\ fnResult # NULL) =>
        /\ fnResult[1] <=> SpecStopMatcher(fnInput.query, fnInput.stop)
        /\ fnResult[1] <=> stopMatches(trim(fnInput.stop), normalizeQuery(fnInput.query))

\* C3: a search that is blank at either end after trimming, or whose two
\* normalized queries are equal, is rejected with an invalid-query notice:
\* the stored search results, the screen, the history and the store stay as
\* they were.
C3_InvalidQueryRejected ==
    [][currentScreen = "commuterSearch" => \A data \in InvalidInputs :
          SearchSubmit(data) =>
              /\ notification' \in {"enterBothLocations", "sameStartAndDestination"}
              /\ UNCHANGED <<searchResults, currentScreen, screenHistory, localStorage>>]_vars

\* C3 witness: an identical-ends query was rejected on the search screen
\* while routes are stored and an earlier result is still held
C3_Witness ==
    /\ currentScreen = "commuterSearch"
    /\ notification = "sameStartAndDestination"
    /\ storedRoutes # {}
    /\ searchResults # <<>>

\* section 4.3: a LocationRecord of the route exists and is younger than
\* 300000 ms
SpecIsOnline(routeId) ==
    \E i \in 1..Len(localStorage) :
        /\ localStorage[i].key = LocationKey(routeId)
        /\ now - localStorage[i].val.timestamp < 300000

\* C4: every evaluation of a bus's liveness, by a bus list badge or by the
\* map's status, reports online exactly when the store holds a
\* LocationRecord of its routeId whose age now - timestamp is under 300000
\* ms: no record gives offline, 299999 ms online, 300000 ms offline.
C4_OnlineWithinFiveMinutes ==
    [][/\ RenderBusList =>
            \A i \in 1..Len(searchResults) :
                onlineBadge'[i] <=> SpecIsOnline(searchResults[i].routeId)
       /\ (MapLoaded \/ (map /\ updateBusLocation)) =>
            (isOnline' <=> SpecIsOnline(trackingBus))]_vars

\* C4 witness: the bus list shows offline a bus whose record is exactly
\* 300000 ms old
C4_Witness ==
    /\ currentScreen = "busList"
    /\ onlineBadge = <<FALSE>>
    /\ \E i \in 1..Len(locationRecords) : now - locationRecords[i].val.timestamp = 300000

\* C5: once stopSharingLocation has returned, and until sharing is started
\* again, no step writes a LocationRecord, whatever the position source
\* still delivers.
C5_NoWriteAfterStop ==
    [][publisherEvent = "stop" => locationRecords' = locationRecords]_vars

\* C6: stopSharingLocation applied to a publisher that is not sharing
\* returns the same sharing state, watcher id and watches; applied twice it
\* gives what one application gives; and a step that runs it leaves the
\* store as it was.
C6_StopIdempotent ==
    /\ [](/\ ~isSharing => stopSharingLocation(publisher) = publisher
          /\ stopSharingLocation(stopSharingLocation(publisher))
                = stopSharingLocation(publisher))
    /\ [][(handleLogout \/ (isSharing /\ toggleLocationSharing))
            => localStorage' = localStorage]_vars

\* C6 witness: stopSharingLocation ran on logout after an error had already
\* ended sharing, so it had nothing to stop
C6_Witness ==
    /\ publisherEvent = "stop"
    /\ currentScreen = "welcome"
    /\ ~isSharing
    /\ \E w \in watches : ~w.mounted

\* C7: after an error from the position source, and until sharing is
\* started again, sharing is off, no watcher id is held and no step writes a
\* LocationRecord.
C7_ErrorStopsPublisher ==
    [][publisherEvent = "error" =>
          /\ ~isSharing
          /\ locationWatcherId = NULL
          /\ locationRecords' = locationRecords]_vars

\* C8: the store never holds two LocationRecords of one routeId, and every
\* delivered position leaves exactly the record {lat, lng, timestamp = time
\* of delivery} under its route's key.
C8_OneRecordLastWriterWins ==
    /\ [](\A i, j \in 1..Len(locationRecords) :
            locationRecords[i].key = locationRecords[j].key => i = j)
    /\ [][\A w \in watches \cup inFlight, position \in Coords :
            (PositionUpdate(w, position) \/ LateUpdate(w, position)) =>
                LET sample == [lat |-> position.lat, lng |-> position.lng,
                               timestamp |-> now]
                IN /\ getItem(localStorage', LocationKey(w.routeId)) = Some(sample)
                   /\ Len(recordsOf(localStorage', w.routeId)) = 1]_vars

\* C8 witness: while sharing is active the record of route 7 is a sample
\* delivered at a later time than the first
C8_Witness ==
    /\ isSharing
    /\ now = Epoch + MaxNow
    /\ getItem(localStorage, LocationKey(<<"7">>))
         = Some([lat |-> 20596, lng |-> 78963, timestamp |-> Epoch + MaxNow])

\* C9: whenever an ETA value is set, the tracked route has a LocationRecord
\* that is live (younger than 300000 ms) at that moment and the user's
\* position has been obtained.
C9_EtaNeedsLiveRecord ==
    [][(eta' # NULL /\ eta' # eta) =>
          (SpecIsOnline(trackingBus) /\ userLocation' # NULL)]_vars

\* the great-circle angle of an ETAEstimator input, in thousandths of a degree
InputAngle ==
    IF fnInput.bus.lng = fnInput.user.lng
    THEN Abs(fnInput.user.lat - fnInput.bus.lat)
    ELSE Abs(fnInput.user.lng - fnInput.bus.lng)

storedRouteSeq ==
    LET entries == SelectSeq(localStorage, LAMBDA e : e.key.pfx = "route_config_")
    IN [i \in 1..Len(entries) |-> entries[i].val]

\* C11: the routes a search returns stand in the order in which the store
\* enumerates them, each as often as the store holds it: the result is the
\* store's sequence of routes cut down to the routes returned.
C11_ResultInStoreOrder ==
    [][currentScreen = "commuterSearch" => \A data \in ValidInputs :
          (SearchSubmit(data) /\ currentScreen' = "busList") =>
              searchResults' = SelectSeq(storedRouteSeq,
                                         LAMBDA r : r \in Range(searchResults'))]_vars

\* C11 witness: a bus list of two different routes
C11_Witness ==
    /\ currentScreen = "busList"
    /\ Len(searchResults) = 2
    /\ searchResults[1] # searchResults[2]

\* C12: a valid search that no stored route qualifies for reports "no buses
\* found", which is not the invalid-query notice, and leaves the application
\* holding the empty result.
C12_NoResultIsEmpty ==
    [][currentScreen = "commuterSearch" => \A data \in {TrackQuery, MissQuery} :
          (/\ SearchSubmit(data)
           /\ ~InvalidQuery(data)
           /\ \A r \in storedRoutes : ~Qualifies(r, data)) =>
              /\ notification' = "noBusesFound"
              /\ searchResults' = <<>>]_vars

\* the routeIds the store has a route configuration or a LocationRecord for
knownRouteIds ==
    {localStorage[i].val.routeId : i \in {k \in 1..Len(localStorage) :
                                          localStorage[k].key.pfx = "route_config_"}}
    \cup {localStorage[i].key.id : i \in {k \in 1..Len(localStorage) :
                                          localStorage[k].key.pfx = "bus_location_"}}

\* C13: at every time and for every route, with or without a
\* LocationRecord, the bus list's verdict equals the map screen's verdict.
C13_SameThreshold ==
    \A routeId \in knownRouteIds :
        LET locationData == getItem(localStorage, LocationKey(routeId))
        IN checkBusOnline(localStorage, routeId, now)
             <=> (locationData # NULL /\ isRecent(locationData[1].timestamp, now))

\* C13 witness: the map has evaluated a record that is exactly 300000 ms old
C13_Witness ==
    /\ currentScreen = "map"
    /\ map
    /\ ~isOnline
    /\ lastUpdate # NULL
    /\ now - lastUpdate[1] = 300000

\* C14: no two stored route configurations have the same routeId.
C14_RouteIdUnique ==
    \A i, j \in 1..Len(localStorage) :
        (/\ localStorage[i].key.pfx = "route_config_"
         /\ localStorage[j].key.pfx = "route_config_"
         /\ localStorage[i].val.routeId = localStorage[j].val.routeId) => i = j

\* a stop name with a character that is not whitespace
NonBlank(stop) == \E k \in 1..Len(stop) : ~isWhiteSpace(stop[k])

routesFiledFor(ls, phone) ==
    SelectSeq(ls, LAMBDA e : e.key.pfx = "route_config_" /\ trim(e.key.id) = phone)

\* the entries of the store other than the registry, the route
\* configuration under a phone and the location records
otherEntries(ls, phone) ==
    SelectSeq(ls, LAMBDA e : /\ e.key # RegistryKey
                             /\ e.key # RouteKey(phone)
                             /\ e.key.pfx # "bus_location_")

\* C16: once the administrator has confirmed the deletion of a driver, the
\* registry does not hold the driver, no route configuration is stored under
\* the driver's phone, no route filed for the driver qualifies for a later
\* search, and the other drivers' records and route configurations are as
\* they were.
C16_DeletionRemovesDriverAndRoute ==
    [][adminDashboardShown => \A driverId \in listedIds :
          deleteDriver(driverId) =>
              LET deleted == findById(drivers, driverId)[1]
                  registry == registeredDrivers(localStorage')
              IN /\ \A i \in 1..Len(registry) : registry[i].id # driverId
                 /\ ~hasItem(localStorage', RouteKey(deleted.phone))
                 /\ \A e \in Range(routesFiledFor(localStorage', deleted.phone)) :
                       ~Qualifies(e.val, TrackQuery)
                 /\ registry = SelectSeq(registeredDrivers(localStorage),
                                         LAMBDA d : d.id # driverId)
                 /\ otherEntries(localStorage', deleted.phone)
                       = otherEntries(localStorage, deleted.phone)]_vars

\* C17: deleting a driver who has a route configuration also removes the
\* location record stored for that route's id.
C17_DeletionRemovesLocation ==
    [][adminDashboardShown => \A driverId \in listedIds :
          deleteDriver(driverId) =>
              LET route == getDriverRoute(drivers, localStorage, driverId)
              IN route # NULL =>
                    ~hasItem(localStorage', LocationKey(route[1].routeId))]_vars

\* the stored route configurations with their keys
routeConfigs == SelectSeq(localStorage, LAMBDA e : e.key.pfx = "route_config_")

\* a step of a reader: search, the bus list, the map or the driver login
ReaderStep ==
    \/ SearchSubmit(TrackQuery)
    \/ SearchSubmit(MissQuery)
    \/ RenderBusList
    \/ \E i \in 1..MaxStops : TrackBus(i)
    \/ MapLoaded
    \/ updateBusLocation
    \/ handleToggleETA
    \/ EtaOff
    \/ \E position \in Coords : UserPosition(position)
    \/ UserPositionError
    \/ LoginSubmit([phone |-> ShareDriver.phone, password |-> ShareDriver.password])

\* a step in which the position source's callback stores a record
PublisherWrite ==
    \E position \in Coords :
        \/ \E w \in watches : PositionUpdate(w, position)
        \/ \E w \in inFlight : LateUpdate(w, position)

\* C18: only the publisher's position callback changes the location records,
\* and a step of search, the bus list, the map (polling, ETA) or the driver
\* login leaves every location record and every route configuration as it was.
C18_OnlyPublisherWrites ==
    [][/\ locationRecords' # locationRecords => PublisherWrite
       /\ ReaderStep => /\ locationRecords' = locationRecords
                        /\ routeConfigs' = routeConfigs]_vars

\* the map has read the record of the tracked bus while a position watch of
\* that bus is still running
C18_Witness ==
    /\ currentScreen = "map"
    /\ isOnline
    /\ routeConfigs # <<>>
    /\ Len(locationRecords) = 1
    /\ lastUpdate = Some(locationRecords[1].val.timestamp)
    /\ \E w \in watches : w.routeId = trackingBus

\* C19: while the map screen is mounted and tracking a bus exactly one
\* polling timer is running, and once the screen is left no timer is.
C19_OneTimerWhileTracking ==
    /\ (currentScreen = "map" /\ trackingBus # <<>>) => pollTimers = 1
    /\ currentScreen # "map" => pollTimers = 0

\* the accounts DriverLogin accepts: the phones findDriver finds a driver for
loginPhones ==
    {localStorage[i].key.id : i \in {k \in 1..Len(localStorage) :
                                       localStorage[k].key.pfx = "driver_"}}
    \cup {registeredDrivers(localStorage)[j].phone :
            j \in 1..Len(registeredDrivers(localStorage))}

\* C20: every driver account that can log in is an entry of the registry
\* the administrator lists, edits and deletes from.
C20_RegistryEnumeratesDrivers ==
    \A phone \in loginPhones :
        /\ findDriver(localStorage, phone) # NULL
        /\ \E j \in 1..Len(registeredDrivers(localStorage)) :
              registeredDrivers(localStorage)[j].phone = phone

\* the phones of the stored driver accounts: the driver records and the
\* entries of the registry
accountPhones(ls) ==
    {ls[i].val.phone : i \in {n \in 1..Len(ls) : ls[n].key.pfx = "driver_"}}
    \cup {registeredDrivers(ls)[j].phone : j \in 1..Len(registeredDrivers(ls))}

\* C21: every stored route configuration is keyed by the phone number that a
\* stored driver account currently holds.
C21_RoutesKeyedByOwner ==
    \A i \in 1..Len(localStorage) :
        localStorage[i].key.pfx = "route_config_"
            => localStorage[i].key.id \in accountPhones(localStorage)

\* C22: there is at most one position watch, and a watch runs only while
\* the dashboard that started it is mounted, shows sharing as active and
\* holds the watch's id, so that stopSharingLocation can cancel it; while
\* sharing is shown as active the watch whose id is held is running.
C22_OneCancellableWatch ==
    /\ Cardinality(watches) <= 1
    /\ \A w \in watches :
          w.mounted /\ isSharing /\ locationWatcherId = Some(w.id)
    /\ isSharing => \E w \in watches : locationWatcherId = Some(w.id)

\* C23: while no driver is logged in, no step changes a LocationRecord.
C23_NoWriteAfterLogout ==
    [][loggedInDriver = NULL => locationRecords' = locationRecords]_vars

\* the stored driver accounts: the driver records followed by the entries
\* of the registry
storedAccounts(ls) ==
    [i \in 1..Len(SelectSeq(ls, LAMBDA e : e.key.pfx = "driver_")) |->
        SelectSeq(ls, LAMBDA e : e.key.pfx = "driver_")[i].val]
    \o registeredDrivers(ls)

\* C24: no two stored driver accounts, driver records and registry entries
\* taken together, hold the same phone number.
C24_PhonesUnique ==
    \A i, j \in 1..Len(storedAccounts(localStorage)) :
        storedAccounts(localStorage)[i].phone = storedAccounts(localStorage)[j].phone
            => i = j

\* the stored accounts that hold this phone and this password
accountsMatching(ls, data) ==
    {n \in 1..Len(storedAccounts(ls)) :
        /\ storedAccounts(ls)[n].phone = data.phone
        /\ storedAccounts(ls)[n].password = data.password}

\* C25: a driver login never changes the store.  When no stored account
\* holds the entered phone with the entered password it leaves the
\* logged-in driver, the current screen and the history as they were.  When
\* it leaves the login screen, the logged-in driver is a stored account with
\* the entered phone and password, and the screen is the dashboard if a route
\* configuration is stored under that phone and route setup if none is.
C25_LoginChecksCredentials ==
    [][currentScreen = "driverLogin" => \A data \in LoginInputs :
          LoginSubmit(data) =>
              /\ localStorage' = localStorage
              /\ accountsMatching(localStorage, data) = {}
                    => UNCHANGED <<loggedInDriver, currentScreen, screenHistory>>
              /\ currentScreen' # "driverLogin" =>
                    /\ \E n \in accountsMatching(localStorage, data) :
                          loggedInDriver' = Some(storedAccounts(localStorage)[n])
                    /\ currentScreen' =
                          IF hasItem(localStorage, RouteKey(data.phone))
                          THEN "driverDashboard" ELSE "driverConfig"]_vars

\* C25 witness: a driver of the registry whose route is filed under another
\* key has logged in and was sent to route setup
C25_Witness ==
    /\ currentScreen = "driverConfig"
    /\ notification = "welcomeBackConfigure"
    /\ loggedInDriver # NULL
    /\ ~hasItem(localStorage, RouteKey(loggedInDriver[1].phone))
    /\ accountsMatching(localStorage, loggedInDriver[1]) # {}

\* C26: when the profile editor has saved a changed phone number, no driver
\* is found for the old phone any more, the driver found for the new phone
\* holds the driver's current password, and the route configuration that was
\* stored under the old phone is the one stored under the new phone.
C26_PhoneChangeMovesAccount ==
    [][(currentScreen = "driverEdit" /\ loggedInDriver # NULL) =>
          \A data \in EditInputs :
              (/\ editSubmit(data)
               /\ notification' = "profileUpdated"
               /\ data.phone # loggedInDriver[1].phone)
              => /\ findDriver(localStorage', loggedInDriver[1].phone) = NULL
                 /\ findDriver(localStorage', data.phone) # NULL
                 /\ findDriver(localStorage', data.phone)[1].password
                       = loggedInDriver'[1].password
                 /\ getItem(localStorage', RouteKey(data.phone))
                       = getItem(localStorage, RouteKey(loggedInDriver[1].phone))]_vars

\* C27: the screen history is never empty and the current screen is its
\* last element; goBack on a history of one entry changes neither; on a
\* longer history it drops the last entry and shows the one before it, and
\* showScreen appends the screen it shows, so a goBack right after a
\* showScreen gives back the history and the current screen from before.
C27_HistoryTracksScreen ==
    /\ [](/\ screenHistory # <<>>
          /\ currentScreen = screenHistory[Len(screenHistory)])
    /\ [][AppGoBack =>
            IF Len(screenHistory) = 1
            THEN UNCHANGED <<currentScreen, screenHistory>>
            ELSE /\ Append(screenHistory', currentScreen) = screenHistory
                 /\ currentScreen' = screenHistory[Len(screenHistory) - 1]]_vars
    /\ [][\A screen \in NavScreens : AppShowScreen(screen) =>
            /\ screenHistory' = Append(screenHistory, screen)
            /\ currentScreen' = screen
            /\ SubSeq(screenHistory', 1, Len(screenHistory') - 1) = screenHistory]_vars

\* C27 witness: a screen other than welcome is shown with a history of one
\* entry, where goBack has nothing to go back to
C27_Witness ==
    /\ Len(screenHistory) = 1
    /\ currentScreen = "busList"
    /\ searchResults = <<>>

\* C28: when the delayed check of an admin login completes after the login
\* screen has been left, it changes neither the logged-in administrator nor
\* the current screen.
C28_LateLoginIgnored ==
    [][(AdminLoginTimeout /\ currentScreen # "adminLogin")
          => UNCHANGED <<loggedInAdmin, currentScreen, screenHistory>>]_vars

\* the requests the fetch handler leaves alone: not GET, or not over http
Skipped(request) ==
    request.method # "GET" \/ request.url.scheme \notin {"http", "https"}

\* the responses the cache holds
cachedResponses == {cache[url][1] : url \in {u \in DOMAIN cache : cache[u] # NULL}}

\* C29: every response in the cache, and every response on its way into
\* it, has its ok flag set, and each one stored by the fetch handler is a
\* response the network gave; a fetch event for a request that is not GET or
\* not over http gets no answer from the handler, starts no cache write and
\* leaves the cache as it is, and nothing is ever cached for such a url.
C29_OnlyOkResponsesCached ==
    /\ [](/\ \A response \in cachedResponses :
                /\ response.ok
                /\ response.body # "installed" => Some(response) \in NetworkOutcomes
          /\ \A put \in pendingPuts :
                /\ put.response.ok
                /\ Some(put.response) \in NetworkOutcomes
                /\ put.url.scheme = "https"
          /\ \A url \in DOMAIN cache : url.scheme # "https" => cache[url] = NULL)
    /\ [][swState = "activated" =>
            \A request \in SWRequests, outcome \in NetworkOutcomes :
                (FetchEvent(request, outcome) /\ Skipped(request))
                => /\ responded'[1].answer = NULL
                   /\ ~responded'[1].handled
                   /\ ~responded'[1].network
                   /\ UNCHANGED <<cache, pendingPuts>>]_vars

\* C29 witness: the cache holds a response the fetch handler stored, and the
\* fetch event just handled was given a response that is not ok
C29_Witness ==
    /\ \E response \in cachedResponses : response.body = "v1"
    /\ responded # NULL
    /\ responded[1].network
    /\ responded[1].outcome # NULL
    /\ ~responded[1].outcome[1].ok
    /\ pendingPuts = {}

\* C30: for a GET request over http, a navigation with a cached entry asks
\* the network and is answered with the network's response when that is ok
\* and with the cached entry when the network fails or the response is not
\* ok; a navigation with no cached entry and a failed network is answered
\* with what the cache holds for '/'; any other request with a cached entry
\* is answered with that entry and the network is not asked.
C30_NetworkFirstForNavigation ==
    [][swState = "activated" =>
          \A request \in SWRequests, outcome \in NetworkOutcomes :
              (FetchEvent(request, outcome) /\ ~Skipped(request))
              => LET cachedResponse == cache[request.url]
                     answer == responded'[1].answer
                 IN /\ (request.mode = "navigate" /\ cachedResponse # NULL)
                       => /\ responded'[1].network
                          /\ answer = IF outcome # NULL /\ outcome[1].ok
                                      THEN outcome ELSE cachedResponse
                    /\ (request.mode = "navigate" /\ cachedResponse = NULL
                          /\ outcome = NULL)
                       => answer = cache[[scheme |-> "https", path |-> "/"]]
                    /\ (request.mode # "navigate" /\ cachedResponse # NULL)
                       => /\ ~responded'[1].network
                          /\ answer = cachedResponse]_vars

\* C30 witness: a navigation to a page that is not cached met a failed
\* network and was answered with the entry cached for '/'
C30_Witness ==
    /\ responded # NULL
    /\ responded[1].request.mode = "navigate"
    /\ responded[1].request.url.path = "/timetable"
    /\ responded[1].cached = NULL
    /\ responded[1].network
    /\ responded[1].outcome = NULL
    /\ responded[1].answer = Some([ok |-> TRUE, body |-> "installed"])
====
